---- MODULE Spec2Model ----
(***************************************************************************)
(* Model of the civic-engagement data stores of the flint backend:         *)
(* the in-memory IssueDataStore (backend/data_store.py), the Supabase      *)
(* backed SupabaseDataStore (backend/supabase_client.py) and the seed      *)
(* data both start from.  One action per public store operation.           *)
(***************************************************************************)
EXTENDS Integers, Sequences, FiniteSets, Bags, TLC

(***************************************************************************)
(* Bounds of the model.                                                    *)
(***************************************************************************)
\* longest issue-id list passed to increment_issues
MaxLen == 2
\* longest id list passed to a relationship query
MaxQueryLen == 1
\* longest id list passed to a relationship query when only queries run
MaxFilterLen == 2
\* largest rise of one issue count above its seed value
MaxIncrement == 2
\* largest rise of total_users above its seed value
MaxCalls == 2
\* most relationships of a seed that name a record that does not exist
MaxDangling == 2
\* most tokens in the value of a query-string parameter
MaxParamLen == 2
\* most tokens in the value of the issues parameter of the requests that
\* make several store calls (candidates, civic-data)
MaxShortParamLen == 1

(***************************************************************************)
(* Python values.                                                          *)
(***************************************************************************)
\* the absent user id (user_id=None)
None == "<None>"

\* every value counts as set, None included
Truthy_always(s) == TRUE

\* truth value of an Optional[str]: None and "" are falsy
Truthy(s) == s # None /\ s # ""

\* x in list
Contains(list, x) == \E k \in 1..Len(list) : list[k] = x

\* set(list)
ToSet(list) == {list[k] : k \in 1..Len(list)}

\* all lists over S of length at most n
ListsUpTo(S, n) == UNION {[1..k -> S] : k \in 0..n}

(***************************************************************************)
(* Seed data of the in-memory store: IssueDataStore._load_demo_data.       *)
(***************************************************************************)
demo_issues ==
       "housing" :> [id |-> "housing", count |-> 1247, related_offices |-> <<"city-council">>, related_measures |-> <<"measure-housing-1">>]
    @@ "education" :> [id |-> "education", count |-> 982, related_offices |-> <<"school-board">>, related_measures |-> <<"measure-edu-1">>]
    @@ "healthcare" :> [id |-> "healthcare", count |-> 1156, related_offices |-> <<"county-commissioner">>, related_measures |-> <<"measure-healthcare-1">>]
    @@ "environment" :> [id |-> "environment", count |-> 891, related_offices |-> <<"mayor", "transit-board">>, related_measures |-> <<"measure-env-1", "measure-trans-1">>]
    @@ "transportation" :> [id |-> "transportation", count |-> 743, related_offices |-> <<"transit-board">>, related_measures |-> <<"measure-trans-1">>]
    @@ "safety" :> [id |-> "safety", count |-> 1089, related_offices |-> <<"sheriff", "mayor">>, related_measures |-> <<"measure-safety-1", "measure-immigration-1">>]
    @@ "economy" :> [id |-> "economy", count |-> 1298, related_offices |-> <<"city-council", "mayor">>, related_measures |-> <<"measure-env-1", "measure-housing-1", "measure-tax-1">>]
    @@ "infrastructure" :> [id |-> "infrastructure", count |-> 567, related_offices |-> <<"city-council", "transit-board">>, related_measures |-> <<"measure-edu-1", "measure-trans-1", "measure-tax-1">>]
    @@ "immigration" :> [id |-> "immigration", count |-> 432, related_offices |-> <<"city-council-general">>, related_measures |-> <<"measure-immigration-1">>]
    @@ "taxes" :> [id |-> "taxes", count |-> 789, related_offices |-> <<"city-council-general">>, related_measures |-> <<"measure-tax-1">>]
    @@ "rights" :> [id |-> "rights", count |-> 923, related_offices |-> <<"sheriff">>, related_measures |-> <<"measure-safety-1", "measure-immigration-1">>]
    @@ "seniors" :> [id |-> "seniors", count |-> 445, related_offices |-> <<"county-commissioner">>, related_measures |-> <<"measure-healthcare-1">>]

demo_offices_keys ==
    <<"city-council", "school-board", "county-commissioner", "mayor", "transit-board", "sheriff", "city-council-general">>

demo_offices ==
       "city-council" :> [id |-> "city-council", level |-> "local", related_issues |-> <<"housing", "economy", "infrastructure">>]
    @@ "school-board" :> [id |-> "school-board", level |-> "local", related_issues |-> <<"education">>]
    @@ "county-commissioner" :> [id |-> "county-commissioner", level |-> "local", related_issues |-> <<"healthcare", "seniors">>]
    @@ "mayor" :> [id |-> "mayor", level |-> "local", related_issues |-> <<"environment", "safety", "economy">>]
    @@ "transit-board" :> [id |-> "transit-board", level |-> "local", related_issues |-> <<"transportation", "environment", "infrastructure">>]
    @@ "sheriff" :> [id |-> "sheriff", level |-> "local", related_issues |-> <<"safety", "rights">>]
    @@ "city-council-general" :> [id |-> "city-council-general", level |-> "local", related_issues |-> <<"immigration", "taxes">>]

demo_ballot_measures_keys ==
    <<"measure-edu-1", "measure-trans-1", "measure-env-1", "measure-housing-1", "measure-safety-1", "measure-healthcare-1", "measure-tax-1", "measure-immigration-1">>

demo_ballot_measures ==
       "measure-edu-1" :> [id |-> "measure-edu-1", related_issues |-> <<"education", "infrastructure">>]
    @@ "measure-trans-1" :> [id |-> "measure-trans-1", related_issues |-> <<"transportation", "environment", "infrastructure">>]
    @@ "measure-env-1" :> [id |-> "measure-env-1", related_issues |-> <<"environment", "economy">>]
    @@ "measure-housing-1" :> [id |-> "measure-housing-1", related_issues |-> <<"housing", "economy">>]
    @@ "measure-safety-1" :> [id |-> "measure-safety-1", related_issues |-> <<"safety", "rights">>]
    @@ "measure-healthcare-1" :> [id |-> "measure-healthcare-1", related_issues |-> <<"healthcare", "seniors">>]
    @@ "measure-tax-1" :> [id |-> "measure-tax-1", related_issues |-> <<"taxes", "economy", "infrastructure">>]
    @@ "measure-immigration-1" :> [id |-> "measure-immigration-1", related_issues |-> <<"immigration", "rights", "safety">>]

demo_candidates ==
       "candidate-1" :> [id |-> "candidate-1", office_id |-> "city-council", related_issues |-> <<"housing", "education", "environment">>]
    @@ "candidate-2" :> [id |-> "candidate-2", office_id |-> "city-council", related_issues |-> <<"economy", "safety", "taxes">>]
    @@ "candidate-3" :> [id |-> "candidate-3", office_id |-> "mayor", related_issues |-> <<"transportation", "infrastructure", "rights">>]

(***************************************************************************)
(* Seed data of the Supabase tables: migrate.seed_data_via_client.         *)
(***************************************************************************)
issues_data ==
       "housing" :> [id |-> "housing", count |-> 1247, related_offices |-> <<"city-council">>, related_measures |-> <<"measure-housing-1", "measure-housing-2", "measure-disaster-1">>]
    @@ "city-budget" :> [id |-> "city-budget", count |-> 982, related_offices |-> <<"city-council">>, related_measures |-> <<"measure-budget-1", "measure-housing-1", "measure-housing-2">>]
    @@ "environment" :> [id |-> "environment", count |-> 803, related_offices |-> <<"city-council">>, related_measures |-> <<"measure-env-1">>]
    @@ "economy" :> [id |-> "economy", count |-> 1567, related_offices |-> <<"city-council">>, related_measures |-> <<"measure-budget-1">>]
    @@ "infrastructure" :> [id |-> "infrastructure", count |-> 1123, related_offices |-> <<"city-council">>, related_measures |-> <<>>]
    @@ "public-safety" :> [id |-> "public-safety", count |-> 2104, related_offices |-> <<"city-council">>, related_measures |-> <<>>]
    @@ "transportation" :> [id |-> "transportation", count |-> 674, related_offices |-> <<"city-council">>, related_measures |-> <<>>]
    @@ "natural-disasters" :> [id |-> "natural-disasters", count |-> 543, related_offices |-> <<"city-council">>, related_measures |-> <<"measure-disaster-1", "measure-env-1">>]

offices_data ==
       "city-council" :> [id |-> "city-council", level |-> "local", related_issues |-> <<"housing", "economy", "infrastructure">>]

ballot_measures_data ==
       "measure-env-1" :> [id |-> "measure-env-1", related_issues |-> <<"environment", "natural-disasters">>]
    @@ "measure-budget-1" :> [id |-> "measure-budget-1", related_issues |-> <<"economy", "city-budget">>]
    @@ "measure-housing-1" :> [id |-> "measure-housing-1", related_issues |-> <<"housing", "city-budget">>]
    @@ "measure-disaster-1" :> [id |-> "measure-disaster-1", related_issues |-> <<"housing", "natural-disasters">>]
    @@ "measure-housing-2" :> [id |-> "measure-housing-2", related_issues |-> <<"housing", "city-budget">>]

candidates_data ==
       "candidate-1" :> [id |-> "candidate-1", office_id |-> "city-council", related_issues |-> <<"housing", "public-safety">>]
    @@ "candidate-2" :> [id |-> "candidate-2", office_id |-> "city-council", related_issues |-> <<"public-safety", "infrastructure", "city-budget">>]
    @@ "candidate-3" :> [id |-> "candidate-3", office_id |-> "city-council", related_issues |-> <<"public-safety", "housing", "economy">>]
    @@ "candidate-4" :> [id |-> "candidate-4", office_id |-> "city-council", related_issues |-> <<"infrastructure", "housing", "environment", "natural-disasters">>]
    @@ "candidate-5" :> [id |-> "candidate-5", office_id |-> "city-council", related_issues |-> <<"housing", "environment", "public-safety">>]
    @@ "candidate-6" :> [id |-> "candidate-6", office_id |-> "city-council", related_issues |-> <<"economy", "housing", "infrastructure">>]
    @@ "candidate-7" :> [id |-> "candidate-7", office_id |-> "city-council", related_issues |-> <<"infrastructure", "public-safety", "economy">>]
    @@ "candidate-8" :> [id |-> "candidate-8", office_id |-> "city-council", related_issues |-> <<"public-safety", "infrastructure", "city-budget", "natural-disasters">>]
    @@ "candidate-9" :> [id |-> "candidate-9", office_id |-> "city-council", related_issues |-> <<"economy", "public-safety", "housing">>]
    @@ "candidate-10" :> [id |-> "candidate-10", office_id |-> "city-council", related_issues |-> <<"public-safety", "housing", "economy", "natural-disasters">>]
    @@ "candidate-11" :> [id |-> "candidate-11", office_id |-> "city-council", related_issues |-> <<"public-safety", "economy", "natural-disasters", "city-budget">>]
    @@ "candidate-12" :> [id |-> "candidate-12", office_id |-> "city-council", related_issues |-> <<"city-budget", "infrastructure">>]
    @@ "candidate-13" :> [id |-> "candidate-13", office_id |-> "city-council", related_issues |-> <<"public-safety", "housing", "transportation">>]
    @@ "candidate-14" :> [id |-> "candidate-14", office_id |-> "city-council", related_issues |-> <<"natural-disasters", "city-budget">>]
    @@ "candidate-15" :> [id |-> "candidate-15", office_id |-> "city-council", related_issues |-> <<"natural-disasters", "housing", "city-budget", "economy">>]

(***************************************************************************)
(* Inputs of the operations.                                               *)
(***************************************************************************)
\* issue ids a caller passes to increment_issues; "nonexistent-id" is in no
\* store, "education" only in the in-memory one
IncIds == {"housing", "education", "nonexistent-id"}

\* values of issue_ids that are not lists, given by the ids they iterate
\* over: None (or an empty dict) and a dict with the key "housing"
NonListValues == {<<>>, <<"housing">>}

\* user ids a caller passes: absent, empty, and two session ids
UserIds == {None, "", "user-1", "user-2"}

\* issue ids a caller passes to the relationship queries
QueryIds == {"housing", "rights", "nonexistent-id"}

(***************************************************************************)
(* State.                                                                  *)
(***************************************************************************)
VARIABLES
    store_kind,       \* class of app.issue_store: "memory" or "supabase"
    issues,           \* self.issues / table 'issues':  id -> record
    offices,          \* self.offices / table 'offices'
    ballot_measures,  \* self.ballot_measures / table 'ballot_measures'
    candidates,       \* self.candidates / table 'candidates'
    total_users,      \* IssueDataStore.total_users
    user_sessions,    \* IssueDataStore.user_sessions
    last,             \* the last call made on the store and what it returned
    threads           \* request threads inside a store method: thread -> frame

vars == <<store_kind, issues, offices, ballot_measures, candidates,
          total_users, user_sessions, last, threads>>

entities == <<issues, offices, ballot_measures, candidates>>

(***************************************************************************)
(* IssueDataStore._establish_relationships                                 *)
(***************************************************************************)
\* if x not in list: list.append(x)
append_if_absent(list, x) == IF Contains(list, x) THEN list ELSE Append(list, x)

\* inner loop over one office's related_issues
RECURSIVE link_office(_, _, _)
link_office(iss, office_id, related_issue_ids) ==
    IF related_issue_ids = <<>> THEN iss
    ELSE LET issue_id == Head(related_issue_ids)
             linked == IF issue_id \in DOMAIN iss
                       THEN [iss EXCEPT ![issue_id].related_offices =
                                            append_if_absent(@, office_id)]
                       ELSE iss
         IN  link_office(linked, office_id, Tail(related_issue_ids))

\* outer loop over self.offices.items()
RECURSIVE link_offices(_, _, _)
link_offices(iss, offs, keys) ==
    IF keys = <<>> THEN iss
    ELSE link_offices(link_office(iss, Head(keys), offs[Head(keys)].related_issues),
                      offs, Tail(keys))

\* inner loop over one ballot measure's related_issues
RECURSIVE link_measure(_, _, _)
link_measure(iss, measure_id, related_issue_ids) ==
    IF related_issue_ids = <<>> THEN iss
    ELSE LET issue_id == Head(related_issue_ids)
             linked == IF issue_id \in DOMAIN iss
                       THEN [iss EXCEPT ![issue_id].related_measures =
                                            append_if_absent(@, measure_id)]
                       ELSE iss
         IN  link_measure(linked, measure_id, Tail(related_issue_ids))

\* outer loop over self.ballot_measures.items()
RECURSIVE link_measures(_, _, _)
link_measures(iss, meas, keys) ==
    IF keys = <<>> THEN iss
    ELSE link_measures(link_measure(iss, Head(keys), meas[Head(keys)].related_issues),
                       meas, Tail(keys))

\* the issues dictionary after both loops
establish_relationships(iss, offs, office_keys, meas, measure_keys) ==
    link_measures(link_offices(iss, offs, office_keys), meas, measure_keys)

\* the seed with a hand-kept list out of step: issue housing names the
\* office mayor, office mayor does not name housing
load_demo_data_unsynced ==
    [issues          |-> establish_relationships(
                             [demo_issues EXCEPT !["housing"].related_offices =
                                                     Append(@, "mayor")],
                             demo_offices, demo_offices_keys,
                             demo_ballot_measures, demo_ballot_measures_keys),
     offices         |-> demo_offices,
     ballot_measures |-> demo_ballot_measures,
     candidates      |-> demo_candidates,
     total_users     |-> Cardinality(DOMAIN demo_issues) * 100]

(***************************************************************************)
(* IssueDataStore._load_demo_data: the store fields it assigns             *)
(***************************************************************************)
load_demo_data ==
    [issues          |-> establish_relationships(demo_issues,
                             demo_offices, demo_offices_keys,
                             demo_ballot_measures, demo_ballot_measures_keys),
     offices         |-> demo_offices,
     ballot_measures |-> demo_ballot_measures,
     candidates      |-> demo_candidates,
     total_users     |-> Cardinality(DOMAIN demo_issues) * 100]

\* the count an issue of the active store starts from
seed_count(issue_id) ==
    IF store_kind = "memory" THEN demo_issues[issue_id].count
    ELSE issues_data[issue_id].count

(***************************************************************************)
(* Construction: app.py create_app picks the store, the store loads its    *)
(* data (IssueDataStore.__init__) or finds the seeded tables.              *)
(***************************************************************************)
\* The record of a call.  Its field rejected remembers, in the record of a
\* reset, the user id that the call right before the reset (or before the
\* run of resets) had rejected as a duplicate, and in the record of the
\* increment_issues call right after a reset, the same user id.
\* Its field response is the status and the error text of the reply that
\* the route sends, its field params the query-string parameters of the
\* request.
NoResponse == [status |-> 0, error |-> ""]

\* a query-string parameter that the URL does not have: the one value
\* written with a token that no text has
Absent == <<"<absent>">>

\* a request without query-string parameters
NoParams == [issues |-> Absent, offices |-> Absent]

NoCall ==
    [op |-> "init", is_list |-> TRUE, issue_ids |-> <<>>, user_id |-> None,
     ret |-> TRUE, outcome |-> "", result |-> EmptyBag, rejected |-> None,
     response |-> NoResponse, params |-> NoParams]

\* app.py increment_issue_counts: the reply when the body has no issueIds
missing_response == [status |-> 400, error |-> "issueIds is required."]

\* app.py increment_issue_counts: the reply after the store call
increment_response(success) ==
    IF ~success
    THEN [status |-> 400,
          error |-> "Failed to  increment - duplicate user or invalid data"]
    ELSE [status |-> 200, error |-> ""]

\* the request threads of the server (run_dev.py: threaded=True)
Threads == {"t1", "t2"}

\* the frame of a thread that is in no store method: pc is the statement it
\* is at, k the position of the loop over issue_ids, d the value its += has
\* read, orphan whether the dict that value came from has since been
\* removed from self.issues, updated is len(updated_issues), ret the value
\* the method returned (or the exception it raised)
Idle ==
    [pc |-> "idle", op |-> "", issue_ids |-> <<>>, user_id |-> None,
     k |-> 0, d |-> 0, orphan |-> FALSE, updated |-> 0, ret |-> None]

Init ==
    /\ threads = [t \in Threads |-> Idle]
    /\ store_kind \in {"memory", "supabase"}
    /\ issues = IF store_kind = "memory" THEN load_demo_data.issues ELSE issues_data
    /\ offices = IF store_kind = "memory" THEN load_demo_data.offices ELSE offices_data
    /\ ballot_measures = IF store_kind = "memory" THEN load_demo_data.ballot_measures
                         ELSE ballot_measures_data
    /\ candidates = IF store_kind = "memory" THEN load_demo_data.candidates
                    ELSE candidates_data
    /\ total_users = IF store_kind = "memory" THEN load_demo_data.total_users ELSE 0
    /\ user_sessions = {}
    /\ last = NoCall

(***************************************************************************)
(* IssueDataStore.increment_issues                                         *)
(***************************************************************************)
RECURSIVE bump_counts(_, _)

\* the loop with -= 1 in place of += 1
bump_counts_down(iss, issue_ids) ==
    IF issue_ids = <<>> THEN iss
    ELSE LET issue_id == Head(issue_ids)
         IN  bump_counts(IF issue_id \in DOMAIN iss
                         THEN [iss EXCEPT ![issue_id].count = @ - 1]
                         ELSE iss,
                         Tail(issue_ids))

\* the loop "for issue_id in issue_ids": the issues dictionary after it
bump_counts(iss, issue_ids) ==
    IF issue_ids = <<>> THEN iss
    ELSE LET issue_id == Head(issue_ids)
         IN  bump_counts(IF issue_id \in DOMAIN iss
                         THEN [iss EXCEPT ![issue_id].count = @ + 1]
                         ELSE iss,
                         Tail(issue_ids))

\* the append placed outside the existence test: every id is reported
updated_issues_all(iss, issue_ids) == issue_ids

\* updated_issues after the loop
updated_issues(iss, issue_ids) == SelectSeq(issue_ids, LAMBDA i : i \in DOMAIN iss)

\* the duplicate check left out
is_duplicate_skipped(user_id) == FALSE

\* if user_id and user_id in self.user_sessions
is_duplicate(user_id) == Truthy(user_id) /\ user_id \in user_sessions

\* the user is recorded before the list is validated
increment_issues_records_first(is_list, issue_ids, user_id) ==
    IF issue_ids = <<>> \/ ~is_list
    THEN [ret |-> FALSE, issues |-> issues,
          user_sessions |-> IF Truthy(user_id) THEN user_sessions \cup {user_id}
                            ELSE user_sessions,
          total_users |-> total_users, outcome |-> "invalid"]
    ELSE IF is_duplicate(user_id)
    THEN [ret |-> FALSE, issues |-> issues, user_sessions |-> user_sessions,
          total_users |-> total_users, outcome |-> "duplicate"]
    ELSE [ret |-> Len(updated_issues(issues, issue_ids)) > 0,
          issues |-> bump_counts(issues, issue_ids),
          user_sessions |-> IF Truthy(user_id) THEN user_sessions \cup {user_id}
                            ELSE user_sessions,
          total_users |-> total_users + 1,
          outcome |-> "counted"]

\* the whole method: return value, the fields it leaves behind, and which
\* of its messages it printed (outcome).
\* is_list is isinstance(issue_ids, list); a non-list value is given by the
\* ids it would iterate over.
increment_issues(is_list, issue_ids, user_id) ==
    IF issue_ids = <<>> \/ ~is_list
    THEN [ret |-> FALSE, issues |-> issues, user_sessions |-> user_sessions,
          total_users |-> total_users, outcome |-> "invalid"]
    ELSE IF is_duplicate(user_id)
    THEN [ret |-> FALSE, issues |-> issues, user_sessions |-> user_sessions,
          total_users |-> total_users, outcome |-> "duplicate"]
    ELSE [ret |-> Len(updated_issues(issues, issue_ids)) > 0,
          issues |-> bump_counts(issues, issue_ids),
          user_sessions |-> IF Truthy(user_id) THEN user_sessions \cup {user_id}
                            ELSE user_sessions,
          total_users |-> total_users + 1,
          outcome |-> "counted"]

\* the counters stay within the bounds of the model
within_bounds(issue_ids) ==
    \A i \in ToSet(issue_ids) \cap DOMAIN issues :
        issues[i].count + Cardinality({k \in 1..Len(issue_ids) : issue_ids[k] = i})
            <= seed_count(i) + MaxIncrement

IncrementIssues ==
    /\ store_kind = "memory"
    /\ total_users < load_demo_data.total_users + MaxCalls
    /\ \E is_list \in BOOLEAN, user_id \in UserIds :
        \E issue_ids \in IF is_list THEN ListsUpTo(IncIds, MaxLen) ELSE NonListValues :
           /\ within_bounds(issue_ids)
           /\ LET r == increment_issues(is_list, issue_ids, user_id)
              IN  /\ issues' = r.issues
                  /\ user_sessions' = r.user_sessions
                  /\ total_users' = r.total_users
                  /\ last' = [op |-> "increment_issues", is_list |-> is_list,
                              issue_ids |-> issue_ids, user_id |-> user_id,
                              ret |-> r.ret, outcome |-> r.outcome,
                              result |-> EmptyBag,
                              rejected |-> IF last.op = "reset_to_demo_data"
                                           THEN last.rejected ELSE None,
                              response |-> increment_response(r.ret),
                              params |-> NoParams]
    /\ UNCHANGED <<threads, store_kind, offices, ballot_measures, candidates>>

\* app.py increment_issue_counts with a body that is empty or has no
\* issueIds: the route replies before it calls the store
IncrementWithoutIssueIds ==
    /\ last' = [NoCall EXCEPT !.op = "increment_issue_counts",
                              !.ret = FALSE,
                              !.outcome = "missing",
                              !.response = missing_response]
    /\ UNCHANGED <<threads, store_kind, entities, total_users, user_sessions>>

(***************************************************************************)
(* IssueDataStore.reset_to_demo_data                                       *)
(***************************************************************************)
\* user_sessions.clear() left out
reset_to_demo_data_keeps_sessions ==
    [issues          |-> load_demo_data.issues,
     offices         |-> load_demo_data.offices,
     ballot_measures |-> load_demo_data.ballot_measures,
     candidates      |-> load_demo_data.candidates,
     user_sessions   |-> user_sessions,
     total_users     |-> load_demo_data.total_users]

\* total_users cleared after the reload instead of before it
reset_to_demo_data_zero_total ==
    [issues          |-> load_demo_data.issues,
     offices         |-> load_demo_data.offices,
     ballot_measures |-> load_demo_data.ballot_measures,
     candidates      |-> load_demo_data.candidates,
     user_sessions   |-> {},
     total_users     |-> 0]

\* the fields after the clear() calls and the reload
reset_to_demo_data ==
    [issues          |-> load_demo_data.issues,
     offices         |-> load_demo_data.offices,
     ballot_measures |-> load_demo_data.ballot_measures,
     candidates      |-> load_demo_data.candidates,
     user_sessions   |-> {},
     total_users     |-> load_demo_data.total_users]

ResetToDemoData ==
    /\ store_kind = "memory"
    /\ LET r == reset_to_demo_data
       IN  /\ issues' = r.issues
           /\ offices' = r.offices
           /\ ballot_measures' = r.ballot_measures
           /\ candidates' = r.candidates
           /\ user_sessions' = r.user_sessions
           /\ total_users' = r.total_users
    /\ last' = [NoCall EXCEPT !.op = "reset_to_demo_data",
                              !.rejected =
                                  IF last.outcome = "duplicate" THEN last.user_id
                                  ELSE IF last.op = "reset_to_demo_data"
                                       THEN last.rejected ELSE None]
    /\ UNCHANGED <<threads, store_kind>>

(***************************************************************************)
(* IssueDataStore relationship queries.  A returned list is modelled by    *)
(* the bag of its records: the order of a list built from a set is not     *)
(* fixed, the number of times a record is appended is.                     *)
(***************************************************************************)
\* the loop copied from the ballot-measure query with its field name
relevant_office_ids_from_measures(issue_ids) ==
    UNION {ToSet(issues[issue_ids[k]].related_measures) :
              k \in {j \in 1..Len(issue_ids) : issue_ids[j] \in DOMAIN issues}}

\* relevant_office_ids after the loop over issue_ids
relevant_office_ids(issue_ids) ==
    UNION {ToSet(issues[issue_ids[k]].related_offices) :
              k \in {j \in 1..Len(issue_ids) : issue_ids[j] \in DOMAIN issues}}

\* the empty list taken as "no filter"
get_offices_by_issues_empty_is_all(issue_ids) ==
    IF issue_ids = <<>> THEN SetToBag({offices[office_id] : office_id \in DOMAIN offices})
    ELSE SetToBag({offices[office_id] :
                      office_id \in relevant_office_ids(issue_ids) \cap DOMAIN offices})

get_offices_by_issues(issue_ids) ==
    IF issue_ids = <<>> THEN EmptyBag
    ELSE SetToBag({offices[office_id] :
                      office_id \in relevant_office_ids(issue_ids) \cap DOMAIN offices})

\* an id that is not in self.issues brings in every measure id
relevant_measure_ids_unknown_all(issue_ids) ==
    UNION {IF issue_ids[k] \in DOMAIN issues
           THEN ToSet(issues[issue_ids[k]].related_measures)
           ELSE DOMAIN ballot_measures : k \in 1..Len(issue_ids)}

\* relevant_measure_ids after the loop over issue_ids
relevant_measure_ids(issue_ids) ==
    UNION {ToSet(issues[issue_ids[k]].related_measures) :
              k \in {j \in 1..Len(issue_ids) : issue_ids[j] \in DOMAIN issues}}

get_ballot_measures_by_issues(issue_ids) ==
    IF issue_ids = <<>> THEN EmptyBag
    ELSE SetToBag({ballot_measures[measure_id] :
                      measure_id \in relevant_measure_ids(issue_ids)
                                     \cap DOMAIN ballot_measures})

\* all(...) in place of any(...)
all_in(issue_ids, some_list) ==
    \A k \in 1..Len(issue_ids) : Contains(some_list, issue_ids[k])

\* any(issue_id in some_list for issue_id in issue_ids)
any_in(issue_ids, some_list) ==
    \E k \in 1..Len(issue_ids) : Contains(some_list, issue_ids[k])

\* the loop body without its continue: both tests append
candidate_appends_no_continue(candidate_data, issue_ids) ==
    (IF any_in(issue_ids, candidate_data.related_issues) THEN 1 ELSE 0)
    + (IF /\ Truthy(candidate_data.office_id)
          /\ candidate_data.office_id \in DOMAIN offices
          /\ any_in(issue_ids, offices[candidate_data.office_id].related_issues)
       THEN 1 ELSE 0)

\* how many times the loop body appends one candidate
candidate_appends(candidate_data, issue_ids) ==
    IF any_in(issue_ids, candidate_data.related_issues) THEN 1
    ELSE IF /\ Truthy(candidate_data.office_id)
            /\ candidate_data.office_id \in DOMAIN offices
            /\ any_in(issue_ids, offices[candidate_data.office_id].related_issues)
         THEN 1
         ELSE 0

get_candidates_by_issues(issue_ids) ==
    IF issue_ids = <<>> THEN EmptyBag
    ELSE LET hit == {c \in DOMAIN candidates :
                        candidate_appends(candidates[c], issue_ids) > 0}
         IN  [r \in {candidates[c] : c \in hit} |->
                 candidate_appends(r, issue_ids)]

\* app.py get_offices, get_ballot_measures, get_candidates: the reply built
\* from the list the store returned
list_response(result) ==
    [status |-> 200, error |-> "", total |-> BagCardinality(result)]

\* a query that also empties user_sessions
IssueQueryUpTo_clearing(max_len) ==
    /\ store_kind = "memory"
    /\ \E issue_ids \in ListsUpTo(QueryIds, max_len) :
          last' = [NoCall EXCEPT !.op = "get_offices_by_issues",
                                 !.issue_ids = issue_ids,
                                 !.result = get_offices_by_issues(issue_ids),
                                 !.response = list_response(get_offices_by_issues(issue_ids))]
    /\ user_sessions' = {}
    /\ UNCHANGED <<threads, store_kind, entities, total_users>>

IssueQueryUpTo(max_len) ==
    /\ store_kind = "memory"
    /\ \E issue_ids \in ListsUpTo(QueryIds, max_len) :
          \/ last' = [NoCall EXCEPT !.op = "get_offices_by_issues",
                                    !.issue_ids = issue_ids,
                                    !.result = get_offices_by_issues(issue_ids),
                                    !.response = list_response(get_offices_by_issues(issue_ids))]
          \/ last' = [NoCall EXCEPT !.op = "get_ballot_measures_by_issues",
                                    !.issue_ids = issue_ids,
                                    !.result = get_ballot_measures_by_issues(issue_ids),
                                    !.response = list_response(get_ballot_measures_by_issues(issue_ids))]
          \/ last' = [NoCall EXCEPT !.op = "get_candidates_by_issues",
                                    !.issue_ids = issue_ids,
                                    !.result = get_candidates_by_issues(issue_ids),
                                    !.response = list_response(get_candidates_by_issues(issue_ids))]
    /\ UNCHANGED <<threads, store_kind, entities, total_users, user_sessions>>

\* a relationship query made between the writes
IssueQuery == IssueQueryUpTo(MaxQueryLen)

\* a relationship query with a longer filter
FilterQuery == IssueQueryUpTo(MaxFilterLen)

\* IssueDataStore.get_total_users
get_total_users == total_users

(***************************************************************************)
(* SupabaseDataStore                                                       *)
(***************************************************************************)
\* the database function increment_issue_count(issue_id_param): adds 1 to
\* the count of the row with that id; its result is empty when no row has it
rpc_increment_issue_count(iss, issue_id) ==
    IF issue_id \in DOMAIN iss
    THEN [data |-> TRUE, issues |-> [iss EXCEPT ![issue_id].count = @ + 1]]
    ELSE [data |-> FALSE, issues |-> iss]

\* the loop of rpc calls over issue_ids
RECURSIVE supabase_bump_counts(_, _)
supabase_bump_counts(iss, issue_ids) ==
    IF issue_ids = <<>> THEN iss
    ELSE supabase_bump_counts(rpc_increment_issue_count(iss, Head(issue_ids)).issues,
                              Tail(issue_ids))

\* SupabaseDataStore.increment_issues.  raises_at = k > 0: the k-th rpc call
\* raises and the except branch returns False; 0: no call raises.
supabase_increment_issues(is_list, issue_ids, user_id, raises_at) ==
    IF issue_ids = <<>> \/ ~is_list
    THEN [ret |-> FALSE, issues |-> issues, outcome |-> "invalid"]
    ELSE IF raises_at > 0
    THEN [ret |-> FALSE,
          issues |-> supabase_bump_counts(issues, SubSeq(issue_ids, 1, raises_at - 1)),
          outcome |-> "error"]
    ELSE [ret |-> Len(SelectSeq(issue_ids,
                     LAMBDA i : rpc_increment_issue_count(issues, i).data)) > 0,
          issues |-> supabase_bump_counts(issues, issue_ids),
          outcome |-> "counted"]

SupabaseIncrementIssues ==
    /\ store_kind = "supabase"
    /\ \E is_list \in BOOLEAN, user_id \in UserIds, raises_at \in 0..MaxLen :
        \E issue_ids \in IF is_list THEN ListsUpTo(IncIds, MaxLen) ELSE NonListValues :
           /\ raises_at <= Len(issue_ids)
           /\ within_bounds(issue_ids)
           /\ LET r == supabase_increment_issues(is_list, issue_ids, user_id, raises_at)
              IN  /\ issues' = r.issues
                  /\ last' = [op |-> "increment_issues", is_list |-> is_list,
                              issue_ids |-> issue_ids, user_id |-> user_id,
                              ret |-> r.ret, outcome |-> r.outcome,
                              result |-> EmptyBag, rejected |-> None,
                              response |-> increment_response(r.ret),
                              params |-> NoParams]
    /\ UNCHANGED <<threads, store_kind, offices, ballot_measures, candidates,
                   total_users, user_sessions>>

\* SupabaseDataStore.reset_to_demo_data: prints that the reset is not
\* implemented and changes nothing
SupabaseResetToDemoData ==
    /\ store_kind = "supabase"
    /\ last' = [NoCall EXCEPT !.op = "reset_to_demo_data"]
    /\ UNCHANGED <<threads, store_kind, entities, total_users, user_sessions>>

(***************************************************************************)
(* SupabaseDataStore relationship queries.  Each execute() either returns  *)
(* the rows the filter selects or raises; a raise is caught by the         *)
(* method's except clause, which returns [].                               *)
(***************************************************************************)
\* office ids a caller passes to get_candidates_by_offices
OfficeIds == {"city-council", "mayor", "nonexistent-office"}

\* filter('related_issues', 'ov', '{a,b}'): the rows whose array overlaps
overlapping(table, issue_ids) ==
    {x \in DOMAIN table : any_in(issue_ids, table[x].related_issues)}

\* what a query method hands back: the rows, and whether an except clause ran
rows(result, outcome) == [result |-> result, outcome |-> outcome]

\* get_all_offices, get_all_ballot_measures, get_all_candidates:
\* table(...).select('*').execute()
supabase_get_all(table, raises) ==
    IF raises THEN rows(EmptyBag, "error")
    ELSE rows(SetToBag({table[x] : x \in DOMAIN table}), "ok")

supabase_get_offices_by_issues(issue_ids, raises) ==
    IF issue_ids = <<>> THEN rows(EmptyBag, "ok")
    ELSE IF raises THEN rows(EmptyBag, "error")
    ELSE rows(SetToBag({offices[o] : o \in overlapping(offices, issue_ids)}), "ok")

supabase_get_ballot_measures_by_issues(issue_ids, raises) ==
    IF issue_ids = <<>> THEN rows(EmptyBag, "ok")
    ELSE IF raises THEN rows(EmptyBag, "error")
    ELSE rows(SetToBag({ballot_measures[m] :
                           m \in overlapping(ballot_measures, issue_ids)}), "ok")

\* raises_at: 0 no execute() raises, 1 the select of the direct candidates,
\* 2 the select inside get_offices_by_issues, 3 the select by office_id
supabase_get_candidates_by_issues(issue_ids, raises_at) ==
    IF issue_ids = <<>> THEN rows(EmptyBag, "ok")
    ELSE IF raises_at = 1 THEN rows(EmptyBag, "error")
    ELSE LET direct_candidates == overlapping(candidates, issue_ids)
             relevant_offices ==
                 supabase_get_offices_by_issues(issue_ids, raises_at = 2)
             office_ids == {r.id : r \in BagToSet(relevant_offices.result)}
             office_candidates ==
                 {c \in DOMAIN candidates : candidates[c].office_id \in office_ids}
         IN  IF office_ids # {} /\ raises_at = 3 THEN rows(EmptyBag, "error")
             ELSE rows(SetToBag({candidates[c] :
                                    c \in direct_candidates \cup office_candidates}),
                       IF raises_at = 2 THEN "offices_error" ELSE "ok")

supabase_get_candidates_by_offices(office_ids, raises) ==
    IF office_ids = <<>> THEN rows(EmptyBag, "ok")
    ELSE IF raises THEN rows(EmptyBag, "error")
    ELSE rows(SetToBag({candidates[c] :
                           c \in {x \in DOMAIN candidates :
                                      Contains(office_ids, candidates[x].office_id)}}),
              "ok")

SupabaseQueryUpTo(max_len) ==
    /\ store_kind = "supabase"
    /\ \/ \E issue_ids \in ListsUpTo(QueryIds, max_len), raises \in BOOLEAN :
             LET r == supabase_get_offices_by_issues(issue_ids, raises)
             IN  last' = [NoCall EXCEPT !.op = "get_offices_by_issues",
                                        !.issue_ids = issue_ids,
                                        !.outcome = r.outcome,
                                        !.result = r.result,
                                        !.response = list_response(r.result)]
       \/ \E issue_ids \in ListsUpTo(QueryIds, max_len), raises \in BOOLEAN :
             LET r == supabase_get_ballot_measures_by_issues(issue_ids, raises)
             IN  last' = [NoCall EXCEPT !.op = "get_ballot_measures_by_issues",
                                        !.issue_ids = issue_ids,
                                        !.outcome = r.outcome,
                                        !.result = r.result,
                                        !.response = list_response(r.result)]
       \/ \E issue_ids \in ListsUpTo(QueryIds, max_len), raises_at \in 0..3 :
             LET r == supabase_get_candidates_by_issues(issue_ids, raises_at)
             IN  last' = [NoCall EXCEPT !.op = "get_candidates_by_issues",
                                        !.issue_ids = issue_ids,
                                        !.outcome = r.outcome,
                                        !.result = r.result,
                                        !.response = list_response(r.result)]
       \/ \E office_ids \in ListsUpTo(OfficeIds, max_len), raises \in BOOLEAN :
             LET r == supabase_get_candidates_by_offices(office_ids, raises)
             IN  last' = [NoCall EXCEPT !.op = "get_candidates_by_offices",
                                        !.issue_ids = office_ids,
                                        !.outcome = r.outcome,
                                        !.result = r.result,
                                        !.response = list_response(r.result)]
    /\ UNCHANGED <<threads, store_kind, entities, total_users, user_sessions>>

\* a relationship query made between the writes
SupabaseQuery == SupabaseQueryUpTo(MaxQueryLen)

\* a relationship query with a longer filter
SupabaseFilterQuery == SupabaseQueryUpTo(MaxFilterLen)

\* max(counts) if counts else 0
max_count(iss) ==
    IF DOMAIN iss = {} THEN 0
    ELSE CHOOSE m \in {iss[i].count : i \in DOMAIN iss} :
             \A i \in DOMAIN iss : iss[i].count <= m

\* SupabaseDataStore.get_total_users (the select succeeds)
supabase_get_total_users == max_count(issues)

\* app.issue_store.get_total_users()
store_get_total_users ==
    IF store_kind = "memory" THEN get_total_users ELSE supabase_get_total_users

(***************************************************************************)
(* IssueDataStore under the threaded server.  The store takes no lock, so  *)
(* the threads' statements interleave.  A += is a read and a later write   *)
(* of the dict it read from; the calls that run in C (dict.clear, set.add, *)
(* list(dict.values())) are single steps.                                  *)
(***************************************************************************)
\* lists of issue ids of the concurrent increment requests
ThreadIssueIds == {<<"housing">>, <<"housing", "nonexistent-id">>}

\* user ids of the concurrent increment requests
ThreadUserIds == {None, "user-1"}

\* the thread moves on: its frame changes as given
goto(t, frame) == threads' = [threads EXCEPT ![t] = frame]

\* the method returns (or raises) in thread t
return(t, value) == goto(t, [threads[t] EXCEPT !.pc = "done", !.ret = value])

\* a request reaches thread t and the route calls the store method
Request(t) ==
    /\ store_kind = "memory"
    /\ threads[t].pc = "idle"
    /\ \/ \E issue_ids \in ThreadIssueIds, user_id \in ThreadUserIds :
             goto(t, [Idle EXCEPT !.pc = "validate", !.op = "increment_issues",
                                  !.issue_ids = issue_ids, !.user_id = user_id])
       \/ goto(t, [Idle EXCEPT !.pc = "clear_issues", !.op = "reset_to_demo_data"])
       \/ \E op \in {"get_total_users", "get_all_issues"} :
             goto(t, [Idle EXCEPT !.pc = "read", !.op = op])
    /\ UNCHANGED <<store_kind, entities, total_users, user_sessions, last>>

\* increment_issues: if not issue_ids or not isinstance(issue_ids, list)
IncValidate(t) ==
    /\ threads[t].pc = "validate"
    /\ IF threads[t].issue_ids = <<>> THEN return(t, FALSE)
       ELSE goto(t, [threads[t] EXCEPT !.pc = "check_user"])
    /\ UNCHANGED <<store_kind, entities, total_users, user_sessions, last>>

\* increment_issues: if user_id and user_id in self.user_sessions
IncCheckUser(t) ==
    /\ threads[t].pc = "check_user"
    /\ IF is_duplicate(threads[t].user_id) THEN return(t, FALSE)
       ELSE goto(t, [threads[t] EXCEPT !.pc = "loop", !.k = 1])
    /\ UNCHANGED <<store_kind, entities, total_users, user_sessions, last>>

\* increment_issues: for issue_id in issue_ids: if issue_id in self.issues
IncLoop(t) ==
    /\ threads[t].pc = "loop"
    /\ LET f == threads[t]
       IN  IF f.k > Len(f.issue_ids) THEN goto(t, [f EXCEPT !.pc = "track"])
           ELSE IF f.issue_ids[f.k] \in DOMAIN issues
                THEN goto(t, [f EXCEPT !.pc = "load"])
                ELSE goto(t, [f EXCEPT !.k = f.k + 1])
    /\ UNCHANGED <<store_kind, entities, total_users, user_sessions, last>>

\* increment_issues: self.issues[issue_id]["count"] += 1, the read; a
\* KeyError if the issue has been removed since the test
IncLoad(t) ==
    /\ threads[t].pc = "load"
    /\ LET f == threads[t]
       IN  IF f.issue_ids[f.k] \notin DOMAIN issues THEN return(t, "KeyError")
           ELSE goto(t, [f EXCEPT !.pc = "store", !.orphan = FALSE,
                                  !.d = issues[f.issue_ids[f.k]].count])
    /\ UNCHANGED <<store_kind, entities, total_users, user_sessions, last>>

\* increment_issues: self.issues[issue_id]["count"] += 1, the write, and
\* updated_issues.append(issue_id)
IncStore(t) ==
    /\ threads[t].pc = "store"
    /\ LET f == threads[t]
       IN  /\ issues' = IF f.orphan THEN issues
                        ELSE [issues EXCEPT ![f.issue_ids[f.k]].count = f.d + 1]
           /\ goto(t, [f EXCEPT !.pc = "loop", !.k = f.k + 1,
                                !.updated = f.updated + 1])
    /\ UNCHANGED <<store_kind, offices, ballot_measures, candidates,
                   total_users, user_sessions, last>>

\* increment_issues: if user_id: self.user_sessions.add(user_id)
IncTrack(t) ==
    /\ threads[t].pc = "track"
    /\ user_sessions' = IF Truthy(threads[t].user_id)
                        THEN user_sessions \cup {threads[t].user_id}
                        ELSE user_sessions
    /\ goto(t, [threads[t] EXCEPT !.pc = "total_load"])
    /\ UNCHANGED <<store_kind, entities, total_users, last>>

\* increment_issues: self.total_users += 1, the read
IncTotalLoad(t) ==
    /\ threads[t].pc = "total_load"
    /\ goto(t, [threads[t] EXCEPT !.pc = "total_store", !.d = total_users])
    /\ UNCHANGED <<store_kind, entities, total_users, user_sessions, last>>

\* increment_issues: self.total_users += 1, the write, and
\* return len(updated_issues) > 0
IncTotalStore(t) ==
    /\ threads[t].pc = "total_store"
    /\ total_users' = threads[t].d + 1
    /\ return(t, threads[t].updated > 0)
    /\ UNCHANGED <<store_kind, entities, user_sessions, last>>

\* the frames after self.issues.clear(): a += that has read its value
\* holds a dict that is no longer in self.issues
orphaned(t) ==
    [u \in Threads |->
        IF u = t THEN [threads[t] EXCEPT !.pc = "clear_offices"]
        ELSE IF threads[u].pc = "store" THEN [threads[u] EXCEPT !.orphan = TRUE]
        ELSE threads[u]]

\* reset_to_demo_data: the four clear() calls, user_sessions.clear() and
\* self.total_users = 0, one statement per step
ResetClear(t) ==
    /\ \/ /\ threads[t].pc = "clear_issues"
          /\ issues' = <<>>
          /\ threads' = orphaned(t)
          /\ UNCHANGED <<offices, ballot_measures, candidates, user_sessions,
                         total_users>>
       \/ /\ threads[t].pc = "clear_offices"
          /\ offices' = <<>>
          /\ goto(t, [threads[t] EXCEPT !.pc = "clear_ballot_measures"])
          /\ UNCHANGED <<issues, ballot_measures, candidates, user_sessions,
                         total_users>>
       \/ /\ threads[t].pc = "clear_ballot_measures"
          /\ ballot_measures' = <<>>
          /\ goto(t, [threads[t] EXCEPT !.pc = "clear_candidates"])
          /\ UNCHANGED <<issues, offices, candidates, user_sessions, total_users>>
       \/ /\ threads[t].pc = "clear_candidates"
          /\ candidates' = <<>>
          /\ goto(t, [threads[t] EXCEPT !.pc = "clear_user_sessions"])
          /\ UNCHANGED <<issues, offices, ballot_measures, user_sessions,
                         total_users>>
       \/ /\ threads[t].pc = "clear_user_sessions"
          /\ user_sessions' = {}
          /\ goto(t, [threads[t] EXCEPT !.pc = "zero_total_users"])
          /\ UNCHANGED <<entities, total_users>>
       \/ /\ threads[t].pc = "zero_total_users"
          /\ total_users' = 0
          /\ goto(t, [threads[t] EXCEPT !.pc = "store_issues"])
          /\ UNCHANGED <<entities, user_sessions>>
    /\ UNCHANGED <<store_kind, last>>

\* the keys of a seed dict that are in the store's dict now, in seed order
present(keys, table) == SelectSeq(keys, LAMBDA x : x \in DOMAIN table)

\* reset_to_demo_data: _load_demo_data, one assignment per step
ResetLoad(t) ==
    /\ \/ /\ threads[t].pc = "store_issues"
          /\ issues' = demo_issues
          /\ goto(t, [threads[t] EXCEPT !.pc = "store_offices"])
          /\ UNCHANGED <<offices, ballot_measures, candidates, user_sessions,
                         total_users>>
       \/ /\ threads[t].pc = "store_offices"
          /\ offices' = demo_offices
          /\ goto(t, [threads[t] EXCEPT !.pc = "store_ballot_measures"])
          /\ UNCHANGED <<issues, ballot_measures, candidates, user_sessions,
                         total_users>>
       \/ /\ threads[t].pc = "store_ballot_measures"
          /\ ballot_measures' = demo_ballot_measures
          /\ goto(t, [threads[t] EXCEPT !.pc = "store_candidates"])
          /\ UNCHANGED <<issues, offices, candidates, user_sessions, total_users>>
       \/ /\ threads[t].pc = "store_candidates"
          /\ candidates' = demo_candidates
          /\ goto(t, [threads[t] EXCEPT !.pc = "establish_relationships"])
          /\ UNCHANGED <<issues, offices, ballot_measures, user_sessions,
                         total_users>>
       \/ /\ threads[t].pc = "establish_relationships"
          /\ issues' = establish_relationships(issues,
                            offices, present(demo_offices_keys, offices),
                            ballot_measures,
                            present(demo_ballot_measures_keys, ballot_measures))
          /\ goto(t, [threads[t] EXCEPT !.pc = "set_total_users"])
          /\ UNCHANGED <<offices, ballot_measures, candidates, user_sessions,
                         total_users>>
       \/ /\ threads[t].pc = "set_total_users"
          /\ total_users' = Cardinality(DOMAIN demo_issues) * 100
          /\ return(t, None)
          /\ UNCHANGED <<entities, user_sessions>>
    /\ UNCHANGED <<store_kind, last>>

\* get_total_users: return self.total_users; get_all_issues:
\* return list(self.issues.values())
Read(t) ==
    /\ threads[t].pc = "read"
    /\ IF threads[t].op = "get_total_users" THEN return(t, total_users)
       ELSE return(t, issues)
    /\ UNCHANGED <<store_kind, entities, total_users, user_sessions, last>>

(***************************************************************************)
(* IssueDataStore.__init__ step by step, with seed dictionaries in which   *)
(* relationships name records that do not exist.                           *)
(***************************************************************************)
\* the relationships a seed can get wrong: an office or a ballot measure
\* that names an unknown issue, an issue that names an unknown office or
\* ballot measure, a candidate that runs for an unknown office
DanglingEdits ==
    {"office_issue", "measure_issue", "issue_office", "issue_measure",
     "candidate_office"}

\* the seed dictionaries of _load_demo_data with the given relationships
\* wrong
seed_with(edits) ==
    [issues |->
         [demo_issues EXCEPT
             !["housing"].related_offices =
                 IF "issue_office" \in edits THEN Append(@, "nonexistent-office")
                 ELSE @,
             !["housing"].related_measures =
                 IF "issue_measure" \in edits THEN Append(@, "nonexistent-measure")
                 ELSE @],
     offices |->
         [demo_offices EXCEPT
             !["mayor"].related_issues =
                 IF "office_issue" \in edits THEN Append(@, "nonexistent-id") ELSE @],
     ballot_measures |->
         [demo_ballot_measures EXCEPT
             !["measure-edu-1"].related_issues =
                 IF "measure_issue" \in edits THEN Append(@, "nonexistent-id") ELSE @],
     candidates |->
         [demo_candidates EXCEPT
             !["candidate-2"].office_id =
                 IF "candidate_office" \in edits THEN "nonexistent-office" ELSE @]]

\* _load_demo_data on given seed dictionaries: the store fields it assigns
load_data(seed) ==
    [issues          |-> establish_relationships(seed.issues,
                             seed.offices, demo_offices_keys,
                             seed.ballot_measures, demo_ballot_measures_keys),
     offices         |-> seed.offices,
     ballot_measures |-> seed.ballot_measures,
     candidates      |-> seed.candidates,
     total_users     |-> Cardinality(DOMAIN seed.issues) * 100]

\* __init__ before it calls _load_demo_data: empty dictionaries
Unloaded ==
    /\ threads = [t \in Threads |-> Idle]
    /\ store_kind = "memory"
    /\ issues = <<>>
    /\ offices = <<>>
    /\ ballot_measures = <<>>
    /\ candidates = <<>>
    /\ total_users = 0
    /\ user_sessions = {}
    /\ last = NoCall

\* __init__ calls _load_demo_data
LoadData ==
    /\ store_kind = "memory"
    /\ last.op = "init"
    /\ DOMAIN issues = {}
    /\ \E edits \in {e \in SUBSET DanglingEdits : Cardinality(e) <= MaxDangling} :
          LET r == load_data(seed_with(edits))
          IN  /\ issues' = r.issues
              /\ offices' = r.offices
              /\ ballot_measures' = r.ballot_measures
              /\ candidates' = r.candidates
              /\ total_users' = r.total_users
    /\ last' = [NoCall EXCEPT !.op = "_load_demo_data"]
    /\ UNCHANGED <<threads, store_kind, user_sessions>>

\* a relationship query on the loaded store
LoadedQuery ==
    /\ DOMAIN issues # {}
    /\ FilterQuery

(***************************************************************************)
(* The read routes of app.py.  The value of a query-string parameter is    *)
(* the sequence of the tokens it is written with; the text of a parsed id  *)
(* is its tokens joined.                                                   *)
(***************************************************************************)
\* what the issues parameter is written with: a comma, a blank, an issue id
IssueTokens == {",", " ", "housing"}

\* what the offices parameter is written with
OfficeTokens == {",", "city-council"}

\* the values a parameter can have: not in the URL, or any text, "" included
ParamValues(tokens, max_len) == {Absent} \cup ListsUpTo(tokens, max_len)

\* request.args.get(name, '')
args_get(value) == IF value = Absent THEN <<>> ELSE value

\* value.split(','): the pieces between the commas
RECURSIVE split(_)
split(value) ==
    LET commas == {k \in 1..Len(value) : value[k] = ","}
    IN  IF commas = {} THEN <<value>>
        ELSE LET k == CHOOSE c \in commas : \A other \in commas : c <= other
             IN  <<SubSeq(value, 1, k - 1)>>
                     \o split(SubSeq(value, k + 1, Len(value)))

\* piece.strip()
RECURSIVE strip(_)
strip(piece) ==
    IF piece = <<>> THEN piece
    ELSE IF Head(piece) = " " THEN strip(Tail(piece))
    ELSE IF piece[Len(piece)] = " " THEN strip(SubSeq(piece, 1, Len(piece) - 1))
    ELSE piece

\* the string a piece is
RECURSIVE text(_)
text(piece) == IF piece = <<>> THEN "" ELSE Head(piece) \o text(Tail(piece))

\* [x.strip() for x in value.split(',') if x.strip()]
parse_ids(value) ==
    LET kept == SelectSeq(split(value), LAMBDA x : strip(x) # <<>>)
    IN  [k \in 1..Len(kept) |-> text(strip(kept[k]))]

\* the table of a store by its name
table_named(name) ==
    CASE name = "issues" -> issues
      [] name = "offices" -> offices
      [] name = "ballot_measures" -> ballot_measures
      [] name = "candidates" -> candidates

\* app.issue_store.get_all_offices(), get_all_ballot_measures(),
\* get_all_candidates(): IssueDataStore has no such methods, the attribute
\* lookup raises AttributeError
store_get_all(name, raises) ==
    IF store_kind = "memory" THEN rows(EmptyBag, "AttributeError")
    ELSE supabase_get_all(table_named(name), raises)

\* app.issue_store.get_all_issues()
store_get_all_issues(raises) ==
    IF store_kind = "memory" THEN rows(SetToBag({issues[i] : i \in DOMAIN issues}), "ok")
    ELSE supabase_get_all(issues, raises)

\* app.issue_store.get_offices_by_issues(selected_issues)
store_get_offices_by_issues(issue_ids, raises) ==
    IF store_kind = "memory" THEN rows(get_offices_by_issues(issue_ids), "ok")
    ELSE supabase_get_offices_by_issues(issue_ids, raises)

\* app.issue_store.get_ballot_measures_by_issues(selected_issues)
store_get_ballot_measures_by_issues(issue_ids, raises) ==
    IF store_kind = "memory" THEN rows(get_ballot_measures_by_issues(issue_ids), "ok")
    ELSE supabase_get_ballot_measures_by_issues(issue_ids, raises)

\* app.issue_store.get_candidates_by_issues(selected_issues)
store_get_candidates_by_issues(issue_ids, raises_at) ==
    IF store_kind = "memory" THEN rows(get_candidates_by_issues(issue_ids), "ok")
    ELSE supabase_get_candidates_by_issues(issue_ids, raises_at)

\* app.issue_store.get_candidates_by_offices(selected_offices): no such
\* method in IssueDataStore
store_get_candidates_by_offices(office_ids, raises) ==
    IF store_kind = "memory" THEN rows(EmptyBag, "AttributeError")
    ELSE supabase_get_candidates_by_offices(office_ids, raises)

\* SupabaseDataStore.get_total_users with its except clause
store_get_total_users_or_zero(raises) ==
    IF store_kind = "supabase" /\ raises THEN 0 ELSE store_get_total_users

\* the ways the execute() calls of one request can end: in the in-memory
\* store there is none to fail
Raises == IF store_kind = "memory" THEN {FALSE} ELSE BOOLEAN
RaisesAt == IF store_kind = "memory" THEN {0} ELSE 0..3

\* the reply to an exception that leaves a handler: the app registers no
\* handler for it, Flask answers 500
error_response == [status |-> 500, error |-> "Internal Server Error", total |-> 0]

\* the reply of a list route
route_response(r) ==
    IF r.outcome = "AttributeError" THEN error_response ELSE list_response(r.result)

\* app.py get_offices: the store call it makes and the list it filtered by
get_offices(issues_value, raises) ==
    LET issues_param == args_get(issues_value)
    IN  IF issues_param # <<>>
        THEN [rows |-> store_get_offices_by_issues(parse_ids(issues_param), raises),
              selected |-> parse_ids(issues_param)]
        ELSE [rows |-> store_get_all("offices", raises), selected |-> <<>>]

\* app.py get_ballot_measures
get_ballot_measures(issues_value, raises) ==
    LET issues_param == args_get(issues_value)
    IN  IF issues_param # <<>>
        THEN [rows |-> store_get_ballot_measures_by_issues(parse_ids(issues_param),
                                                           raises),
              selected |-> parse_ids(issues_param)]
        ELSE [rows |-> store_get_all("ballot_measures", raises), selected |-> <<>>]

\* app.py get_candidates
get_candidates(issues_value, offices_value, raises_at) ==
    LET issues_param == args_get(issues_value)
        offices_param == args_get(offices_value)
    IN  IF offices_param # <<>>
        THEN [rows |-> store_get_candidates_by_offices(parse_ids(offices_param),
                                                       raises_at = 1),
              selected |-> parse_ids(offices_param)]
        ELSE IF issues_param # <<>>
        THEN [rows |-> store_get_candidates_by_issues(parse_ids(issues_param),
                                                      raises_at),
              selected |-> parse_ids(issues_param)]
        ELSE [rows |-> store_get_all("candidates", raises_at = 1), selected |-> <<>>]

\* what a read route leaves in last
route_call(op, params, r) ==
    [NoCall EXCEPT !.op = op, !.params = params, !.issue_ids = r.selected,
                   !.outcome = r.rows.outcome, !.result = r.rows.result,
                   !.response = route_response(r.rows)]

\* app.py get_issues
GetIssues ==
    /\ \E raises \in Raises, total_raises \in Raises :
          LET r == store_get_all_issues(raises)
          IN  last' = [NoCall EXCEPT
                          !.op = "get_issues",
                          !.outcome = r.outcome,
                          !.result = r.result,
                          !.response =
                              [status |-> 200, error |-> "",
                               total |-> BagCardinality(r.result),
                               total_users |->
                                   store_get_total_users_or_zero(total_raises)]]
    /\ UNCHANGED <<threads, store_kind, entities, total_users, user_sessions>>

GetOffices ==
    /\ \E issues_value \in ParamValues(IssueTokens, MaxParamLen), raises \in Raises :
          last' = route_call("get_offices",
                             [NoParams EXCEPT !.issues = issues_value],
                             get_offices(issues_value, raises))
    /\ UNCHANGED <<threads, store_kind, entities, total_users, user_sessions>>

GetBallotMeasures ==
    /\ \E issues_value \in ParamValues(IssueTokens, MaxParamLen), raises \in Raises :
          last' = route_call("get_ballot_measures",
                             [NoParams EXCEPT !.issues = issues_value],
                             get_ballot_measures(issues_value, raises))
    /\ UNCHANGED <<threads, store_kind, entities, total_users, user_sessions>>

GetCandidates ==
    /\ \E issues_value \in ParamValues(IssueTokens, MaxShortParamLen),
          offices_value \in ParamValues(OfficeTokens, MaxParamLen),
          raises_at \in RaisesAt :
          last' = route_call("get_candidates",
                             [issues |-> issues_value, offices |-> offices_value],
                             get_candidates(issues_value, offices_value, raises_at))
    /\ UNCHANGED <<threads, store_kind, entities, total_users, user_sessions>>

\* the store calls of get_civic_data that can fail
CivicCalls ==
    {"get_all_issues", "offices", "ballot_measures", "candidates", "get_total_users"}

\* app.py get_civic_data: the store calls in the order the handler makes
\* them.  failing is the set of calls whose execute() raises, raises_at
\* says which execute() of get_candidates_by_issues does.
get_civic_data(issues_value, failing, raises_at) ==
    LET issues_param == args_get(issues_value)
        selected_issues == IF issues_param # <<>> THEN parse_ids(issues_param)
                           ELSE <<>>
        all_issues == store_get_all_issues("get_all_issues" \in failing)
        r_offices ==
            IF issues_param # <<>>
            THEN store_get_offices_by_issues(selected_issues, "offices" \in failing)
            ELSE store_get_all("offices", "offices" \in failing)
        r_ballot_measures ==
            IF issues_param # <<>>
            THEN store_get_ballot_measures_by_issues(selected_issues,
                                                     "ballot_measures" \in failing)
            ELSE store_get_all("ballot_measures", "ballot_measures" \in failing)
        r_candidates ==
            IF issues_param # <<>>
            THEN store_get_candidates_by_issues(selected_issues, raises_at)
            ELSE store_get_all("candidates", "candidates" \in failing)
        outcomes == {all_issues.outcome, r_offices.outcome,
                     r_ballot_measures.outcome, r_candidates.outcome}
    IN  [selected |-> selected_issues,
         outcome |-> IF "AttributeError" \in outcomes THEN "AttributeError"
                     ELSE IF outcomes = {"ok"} /\ "get_total_users" \notin failing
                          THEN "ok" ELSE "error",
         result |-> [issues |-> all_issues.result,
                     offices |-> r_offices.result,
                     ballot_measures |-> r_ballot_measures.result,
                     candidates |-> r_candidates.result,
                     total_users |->
                         store_get_total_users_or_zero("get_total_users" \in failing)]]

GetCivicData ==
    /\ \E issues_value \in ParamValues(IssueTokens, MaxShortParamLen),
          failing \in IF store_kind = "memory" THEN {{}} ELSE SUBSET CivicCalls,
          raises_at \in RaisesAt :
          /\ raises_at > 0 <=> "candidates" \in failing
          /\ LET r == get_civic_data(issues_value, failing, raises_at)
             IN  last' = [NoCall EXCEPT
                             !.op = "get_civic_data",
                             !.params = [NoParams EXCEPT !.issues = issues_value],
                             !.issue_ids = r.selected,
                             !.outcome = r.outcome,
                             !.result = IF r.outcome = "AttributeError"
                                        THEN EmptyBag ELSE r.result,
                             !.response = IF r.outcome = "AttributeError"
                                          THEN error_response
                                          ELSE [status |-> 200, error |-> ""]]
    /\ UNCHANGED <<threads, store_kind, entities, total_users, user_sessions>>

(***************************************************************************)
(* Specification                                                           *)
(***************************************************************************)
Next ==
    \/ IncrementIssues
    \/ ResetToDemoData
    \/ IssueQuery
    \/ SupabaseIncrementIssues
    \/ SupabaseResetToDemoData
    \/ SupabaseQuery
    \/ IncrementWithoutIssueIds

Spec == Init /\ [][Next]_vars

\* the store as constructed or reset, and relationship queries with longer
\* filters on it
QueryNext ==
    \/ FilterQuery
    \/ SupabaseFilterQuery
    \/ ResetToDemoData
    \/ SupabaseResetToDemoData

QuerySpec == Init /\ [][QueryNext]_vars

\* the in-memory store under concurrent requests, one per thread
ThreadNext ==
    \E t \in Threads :
        \/ Request(t)
        \/ IncValidate(t)
        \/ IncCheckUser(t)
        \/ IncLoop(t)
        \/ IncLoad(t)
        \/ IncStore(t)
        \/ IncTrack(t)
        \/ IncTotalLoad(t)
        \/ IncTotalStore(t)
        \/ ResetClear(t)
        \/ ResetLoad(t)
        \/ Read(t)

ThreadSpec == Init /\ [][ThreadNext]_vars

\* the construction of the in-memory store from a seed, and relationship
\* queries on what it loaded
LoadNext ==
    \/ LoadData
    \/ LoadedQuery

LoadSpec == Unloaded /\ [][LoadNext]_vars

\* the store as constructed, and the list routes on it
RouteNext ==
    \/ GetIssues
    \/ GetOffices
    \/ GetBallotMeasures
    \/ GetCandidates

RouteSpec == Init /\ [][RouteNext]_vars

\* the store as constructed, and the combined fetch next to the issue list
CivicNext ==
    \/ GetCivicData
    \/ GetIssues

CivicSpec == Init /\ [][CivicNext]_vars

(***************************************************************************)
(* Properties of IssueDataStore.increment_issues.  A step is recognised by *)
(* the call record it leaves in last.                                      *)
(***************************************************************************)
\* the step is a call of IssueDataStore.increment_issues
MemIncrementStep == store_kind = "memory" /\ last'.op = "increment_issues"

\* the step is such a call with a non-empty list
MemIncrementListStep ==
    MemIncrementStep /\ last'.is_list /\ last'.issue_ids # <<>>

\* at least one id of the list is an existing issue
Resolves(issue_ids) == \E k \in 1..Len(issue_ids) : issue_ids[k] \in DOMAIN issues

\* the user id is set and was recorded before the call
SeenBefore(user_id) == Truthy(user_id) /\ user_id \in user_sessions

\* C1: a call whose non-empty user id is already recorded returns failure
\* and changes no count, not total_users and not user_sessions; a call that
\* succeeds for a user id finds it unrecorded and records it, and nothing
\* but a reset removes a recorded user id: at most one success per user id
\* between two resets.
C1_SingleParticipation ==
    [][ /\ (MemIncrementStep /\ SeenBefore(last'.user_id)) =>
               /\ ~last'.ret
               /\ issues' = issues
               /\ total_users' = total_users
               /\ user_sessions' = user_sessions
        /\ (MemIncrementStep /\ last'.ret /\ Truthy(last'.user_id)) =>
               /\ last'.user_id \notin user_sessions
               /\ last'.user_id \in user_sessions'
        /\ (store_kind = "memory" /\ last'.op # "reset_to_demo_data") =>
               user_sessions \subseteq user_sessions'
      ]_vars

\* a second call by a recorded user was rejected, after that user's first
\* call had raised a count
C1_Witness ==
    /\ store_kind = "memory"
    /\ last.op = "increment_issues"
    /\ last.outcome = "duplicate"
    /\ last.user_id \in user_sessions
    /\ Resolves(last.issue_ids)
    /\ \E i \in DOMAIN issues : issues[i].count > seed_count(i)

\* C2: a call with a non-empty list none of whose ids is an existing issue
\* returns failure and leaves total_users as it was.
C2_NoResolveNoCount ==
    [][ (MemIncrementListStep /\ ~Resolves(last'.issue_ids)) =>
            (~last'.ret /\ total_users' = total_users) ]_vars

\* C3: a call with a non-empty list and a user that is not a duplicate
\* raises the count of every existing issue named in the list by exactly 1,
\* however often the list names it, and leaves every other count unchanged.
C3_EachNamedIssueByOne ==
    [][ (MemIncrementListStep /\ ~SeenBefore(last'.user_id)) =>
            \A i \in DOMAIN issues :
                issues'[i].count =
                    issues[i].count + (IF i \in ToSet(last'.issue_ids) THEN 1 ELSE 0)
      ]_vars

\* C4: for a list of ids, the returned flag is true exactly when some id
\* of the list is an existing issue and the user id, if any, was not
\* recorded before the call.
C4_SuccessFlag ==
    [][ (MemIncrementStep /\ last'.is_list) =>
            (last'.ret <=> (Resolves(last'.issue_ids) /\ ~SeenBefore(last'.user_id)))
      ]_vars

\* a call with a user id, an existing and an unknown issue id returned true
C4_Witness ==
    /\ store_kind = "memory"
    /\ last.op = "increment_issues"
    /\ last.ret
    /\ Truthy(last.user_id)
    /\ Contains(last.issue_ids, "nonexistent-id")
    /\ Contains(last.issue_ids, "housing")

\* C5: every call without a user id that names an existing issue succeeds,
\* and raises by 1 the count of each issue it names once: n such calls
\* raise it by n.
C5_NoDedupWithoutUser ==
    [][ (MemIncrementListStep /\ last'.user_id = None /\ Resolves(last'.issue_ids)) =>
            /\ last'.ret
            /\ \A i \in DOMAIN issues :
                   Cardinality({k \in 1..Len(last'.issue_ids) :
                                   last'.issue_ids[k] = i}) = 1
                       => issues'[i].count = issues[i].count + 1
      ]_vars

\* the second of two calls ["housing"] without a user id since the last
\* reset has succeeded and housing stands 2 above its seed value
C5_Witness ==
    /\ store_kind = "memory"
    /\ last.op = "increment_issues"
    /\ last.user_id = None
    /\ last.issue_ids = <<"housing">>
    /\ last.ret
    /\ user_sessions = {}
    /\ total_users = load_demo_data.total_users + 2
    /\ issues["housing"].count = seed_count("housing") + 2

(***************************************************************************)
(* Properties of the total-participants counter and of the reset.          *)
(***************************************************************************)
\* C6: every successful increment_issues call raises the total reported by
\* the active store's get_total_users by exactly 1.
C6_OnePerSuccessfulCall ==
    [][ (last'.op = "increment_issues" /\ last'.ret) =>
            store_get_total_users' = store_get_total_users + 1 ]_vars

\* the part of C6 that the in-memory store satisfies
C6_InMemoryOnePerSuccessfulCall ==
    [][ (MemIncrementStep /\ last'.ret) => get_total_users' = get_total_users + 1 ]_vars

C8_ResetIsInitialState ==
    [][ (store_kind = "memory" /\ last'.op = "reset_to_demo_data") =>
            /\ issues' = load_demo_data.issues
            /\ offices' = load_demo_data.offices
            /\ ballot_measures' = load_demo_data.ballot_measures
            /\ candidates' = load_demo_data.candidates
            /\ total_users' = load_demo_data.total_users
            /\ user_sessions' = {}
            /\ last.op = "reset_to_demo_data" =>
                   <<entities, total_users, user_sessions>>' =
                       <<entities, total_users, user_sessions>>
      ]_vars

\* a reset was made after counts had been raised and a duplicate rejected
C8_Witness ==
    /\ store_kind = "memory"
    /\ last.op = "reset_to_demo_data"
    /\ last.rejected # None
    /\ total_users = load_demo_data.total_users
    /\ issues = load_demo_data.issues

(***************************************************************************)
(* Properties of the relationship lists and of the queries over them.      *)
(***************************************************************************)
\* issue j names office o / office o names issue j
IssueNamesOffice(j, o) == j \in DOMAIN issues /\ Contains(issues[j].related_offices, o)
OfficeNamesIssue(o, j) == o \in DOMAIN offices /\ Contains(offices[o].related_issues, j)

\* issue j names measure m / measure m names issue j
IssueNamesMeasure(j, m) == j \in DOMAIN issues /\ Contains(issues[j].related_measures, m)
MeasureNamesIssue(m, j) ==
    m \in DOMAIN ballot_measures /\ Contains(ballot_measures[m].related_issues, j)

\* every id a relationship list of the store mentions, with every key
AllIssueIds ==
    DOMAIN issues
    \cup UNION {ToSet(offices[o].related_issues) : o \in DOMAIN offices}
    \cup UNION {ToSet(ballot_measures[m].related_issues) : m \in DOMAIN ballot_measures}
AllOfficeIds ==
    DOMAIN offices \cup UNION {ToSet(issues[j].related_offices) : j \in DOMAIN issues}
AllMeasureIds ==
    DOMAIN ballot_measures
    \cup UNION {ToSet(issues[j].related_measures) : j \in DOMAIN issues}

\* C9: in every state of the in-memory store, office O is in issue J's
\* related_offices exactly when J is in O's related_issues, and ballot
\* measure M is in J's related_measures exactly when J is in M's
\* related_issues.
C9_SymmetricIndices ==
    store_kind = "memory" =>
        /\ \A j \in AllIssueIds, o \in AllOfficeIds :
               IssueNamesOffice(j, o) <=> OfficeNamesIssue(o, j)
        /\ \A j \in AllIssueIds, m \in AllMeasureIds :
               IssueNamesMeasure(j, m) <=> MeasureNamesIssue(m, j)

\* the store has been reset after increments, and holds a pair named from
\* both sides and a pair named from neither
C9_Witness ==
    /\ store_kind = "memory"
    /\ last.op = "reset_to_demo_data"
    /\ last.rejected # None
    /\ IssueNamesOffice("economy", "mayor") /\ OfficeNamesIssue("mayor", "economy")
    /\ IssueNamesMeasure("rights", "measure-safety-1")
    /\ ~IssueNamesOffice("housing", "mayor") /\ ~OfficeNamesIssue("mayor", "housing")

\* C10: for every issue id I, get_offices_by_issues([I]) is the list holding
\* once each office whose related_issues contains I and nothing else, and
\* get_ballot_measures_by_issues([I]) the same for ballot measures.
C10_SingleIssueQueryExact ==
    store_kind = "memory" =>
        \A i \in AllIssueIds \cup QueryIds :
            /\ get_offices_by_issues(<<i>>) =
                   SetToBag({offices[o] : o \in {x \in DOMAIN offices :
                                                    OfficeNamesIssue(x, i)}})
            /\ get_ballot_measures_by_issues(<<i>>) =
                   SetToBag({ballot_measures[m] : m \in {x \in DOMAIN ballot_measures :
                                                            MeasureNamesIssue(x, i)}})

\* get_offices_by_issues(["housing"]) has returned the city-council record,
\* once, after a count was raised
C10_Witness ==
    /\ store_kind = "memory"
    /\ last.op = "get_offices_by_issues"
    /\ last.issue_ids = <<"housing">>
    /\ BagToSet(last.result) = {offices["city-council"]}
    /\ CopiesIn(offices["city-council"], last.result) = 1
    /\ issues["housing"].count > seed_count("housing")

(***************************************************************************)
(* Properties of the relationship queries with filters of any length.      *)
(***************************************************************************)
\* the call recorded in last returned what the store computed: always for
\* the in-memory store, for the Supabase store when no execute() raised
Answered(op) ==
    /\ last.op = op
    /\ store_kind = "supabase" => last.outcome = "ok"

\* candidate c is tagged with an id of the list
DirectlyTagged(c, issue_ids) ==
    ToSet(candidates[c].related_issues) \cap ToSet(issue_ids) # {}

\* candidate c runs for an existing office that handles an id of the list
TaggedByOffice(c, issue_ids) ==
    /\ candidates[c].office_id \in DOMAIN offices
    /\ ToSet(offices[candidates[c].office_id].related_issues) \cap ToSet(issue_ids) # {}

ByIssues ==
    {"get_offices_by_issues", "get_ballot_measures_by_issues", "get_candidates_by_issues"}

\* the four relationship queries
RelationshipQueries == ByIssues \cup {"get_candidates_by_offices"}

\* the list without the ids that are not existing issues
KnownOnly(issue_ids) == SelectSeq(issue_ids, LAMBDA i : i \in DOMAIN issues)

\* what the active store returns for a query when no execute() raises
StoreQuery(op, issue_ids) ==
    IF store_kind = "memory"
    THEN CASE op = "get_offices_by_issues" -> get_offices_by_issues(issue_ids)
           [] op = "get_ballot_measures_by_issues" ->
                  get_ballot_measures_by_issues(issue_ids)
           [] op = "get_candidates_by_issues" -> get_candidates_by_issues(issue_ids)
    ELSE CASE op = "get_offices_by_issues" ->
                  supabase_get_offices_by_issues(issue_ids, FALSE).result
           [] op = "get_ballot_measures_by_issues" ->
                  supabase_get_ballot_measures_by_issues(issue_ids, FALSE).result
           [] op = "get_candidates_by_issues" ->
                  supabase_get_candidates_by_issues(issue_ids, 0).result

\* C12: the result of each of the three queries for a list is the result
\* for the list with every id that is not an existing issue removed.
C12_UnknownIdsContributeNothing ==
    (last.op \in ByIssues /\ Answered(last.op)) =>
        last.result = StoreQuery(last.op, KnownOnly(last.issue_ids))

\* get_ballot_measures_by_issues(["nonexistent-id", "housing"]) returned
\* the measures of housing
C12_Witness ==
    /\ store_kind = "memory"
    /\ last.op = "get_ballot_measures_by_issues"
    /\ last.issue_ids = <<"nonexistent-id", "housing">>
    /\ KnownOnly(last.issue_ids) = <<"housing">>
    /\ last.result # EmptyBag
    /\ last.result = get_ballot_measures_by_issues(<<"housing">>)

ValidationFailureStep ==
    \/ last'.op = "increment_issue_counts" /\ last'.outcome = "missing"
    \/ last'.op = "increment_issues" /\ (~last'.is_list \/ last'.issue_ids = <<>>)

\* C18: an increment request that fails validation is answered with an
\* error and changes no issue count, not user_sessions (whatever user id
\* it carries) and not total_users, in either store.
C18_ValidationFailureNoEffect ==
    [][ ValidationFailureStep =>
            /\ ~last'.ret
            /\ last'.response.status = 400
            /\ <<entities, user_sessions, total_users>>' =
                   <<entities, user_sessions, total_users>>
      ]_vars

\* a request with an empty list and a user id not yet recorded was refused
\* by the in-memory store after another user had been counted, and the
\* user id is still unrecorded
C18_Witness ==
    /\ store_kind = "memory"
    /\ last.op = "increment_issues"
    /\ last.is_list /\ last.issue_ids = <<>>
    /\ last.outcome = "invalid"
    /\ Truthy(last.user_id)
    /\ user_sessions # {}
    /\ last.user_id \notin user_sessions

\* C19: the reply to a request refused as a duplicate differs from the
\* reply to a request refused by validation: of two consecutive requests,
\* the first refused as a duplicate and the second by validation, the
\* replies are not equal.
C19_DuplicateDistinctFromInvalid ==
    [][ (/\ last.op = "increment_issues" /\ last.outcome = "duplicate"
         /\ ValidationFailureStep)
            => last'.response # last.response ]_vars

(***************************************************************************)
(* Properties of the Supabase store when the backing store fails.          *)
(***************************************************************************)
\* C20: a relationship query of the Supabase store during which the
\* backing store failed is not answered with a successful reply holding
\* zero records.
C20_FailureNotEmptyResult ==
    (/\ store_kind = "supabase"
     /\ last.op \in RelationshipQueries
     /\ last.outcome = "error")
        => ~(last.response.status = 200 /\ last.response.total = 0)

(***************************************************************************)
(* Properties of the in-memory store under concurrent requests.            *)
(***************************************************************************)
\* thread t has returned from the store method op
Returned(t, op) == threads[t].pc = "done" /\ threads[t].op = op

\* C15: no read sees a partly reset store: get_total_users never returns a
\* total below the seed total, and get_all_issues always returns all the
\* issues of the seed.
C15_ReadsSeeNoPartialReset ==
    \A t \in Threads :
        /\ Returned(t, "get_total_users") =>
               threads[t].ret >= load_demo_data.total_users
        /\ Returned(t, "get_all_issues") =>
               DOMAIN threads[t].ret = DOMAIN demo_issues

\* the part of the store that the writes change
StoreState ==
    [issues |-> issues, user_sessions |-> user_sessions, total_users |-> total_users]

\* the store a fresh construction or a reset gives
SeedStore ==
    [issues |-> load_demo_data.issues, user_sessions |-> {},
     total_users |-> load_demo_data.total_users]

\* the store after the call of thread t has run alone on the store st
After(st, t) ==
    LET f == threads[t]
    IN  IF f.op = "reset_to_demo_data" THEN SeedStore
        ELSE IF f.op # "increment_issues" THEN st
        ELSE IF f.issue_ids = <<>> THEN st
        ELSE IF Truthy(f.user_id) /\ f.user_id \in st.user_sessions THEN st
        ELSE [issues |-> bump_counts(st.issues, f.issue_ids),
              user_sessions |-> IF Truthy(f.user_id)
                                THEN st.user_sessions \cup {f.user_id}
                                ELSE st.user_sessions,
              total_users |-> st.total_users + 1]

\* C16: when every thread has returned, the store is the one that the
\* threads' calls give when they run one after the other in some order.
C16_WritesSerialized ==
    (\A t \in Threads : threads[t].pc = "done") =>
        \E a, b \in Threads :
            a # b /\ StoreState = After(After(SeedStore, a), b)

\* C17: two increment_issues calls that carry the same user id and run
\* concurrently do not both return success.
C17_OneSuccessPerUserConcurrently ==
    \A a, b \in Threads :
        (/\ a # b
         /\ Returned(a, "increment_issues") /\ Returned(b, "increment_issues")
         /\ Truthy(threads[a].user_id)
         /\ threads[a].user_id = threads[b].user_id)
            => ~(threads[a].ret = TRUE /\ threads[b].ret = TRUE)

(***************************************************************************)
(* Properties of the counts and of the recorded users over all calls.      *)
(***************************************************************************)
\* C25: in every state each issue count is a natural number not below its
\* seed value; a step that is not a reset lowers no count, and a reset of
\* the in-memory store sets every count to its seed value.
C25_CountsMonotoneBetweenResets ==
    [][ /\ \A i \in DOMAIN issues' :
               issues'[i].count \in Nat /\ issues'[i].count >= seed_count(i)
        /\ last'.op # "reset_to_demo_data" =>
               /\ DOMAIN issues \subseteq DOMAIN issues'
               /\ \A i \in DOMAIN issues : issues'[i].count >= issues[i].count
        /\ (\E i \in DOMAIN issues : i \in DOMAIN issues'
                                     /\ issues'[i].count < issues[i].count) =>
               /\ last'.op = "reset_to_demo_data"
               /\ \A i \in DOMAIN issues' : issues'[i].count = seed_count(i)
      ]_vars

\* housing was raised twice, a reset lowered it to its seed value, and a
\* call has raised it again
C25_Witness ==
    /\ store_kind = "memory"
    /\ last.op = "increment_issues"
    /\ last.rejected # None
    /\ last.ret
    /\ issues["housing"].count = seed_count("housing") + 1
    /\ total_users = load_demo_data.total_users + 1

\* C27: the Supabase increment_issues rejects a call whose user id the call
\* right before it had already been counted for, and a call of it that
\* returns failure leaves every issue count as it was.
C27_SupabaseSamePerCallContract ==
    [][ (store_kind = "supabase" /\ last'.op = "increment_issues") =>
            /\ (/\ last.op = "increment_issues" /\ last.ret
                /\ Truthy(last.user_id) /\ last'.user_id = last.user_id)
                   => (~last'.ret /\ issues' = issues)
            /\ ~last'.ret => issues' = issues
      ]_vars

\* C28: an in-memory increment_issues call that returns failure records no
\* user id: user_sessions is as it was before the call.
C28_FailureConsumesNoParticipation ==
    [][ (MemIncrementStep /\ ~last'.ret) => user_sessions' = user_sessions ]_vars

(***************************************************************************)
(* The two stores' relationship queries side by side.                      *)
(***************************************************************************)
\* the candidates that IssueDataStore.get_candidates_by_issues finds by
\* their office
memory_office_candidates(issue_ids) ==
    {c \in DOMAIN candidates :
        /\ Truthy(candidates[c].office_id)
        /\ candidates[c].office_id \in DOMAIN offices
        /\ any_in(issue_ids, offices[candidates[c].office_id].related_issues)}

\* the candidates that SupabaseDataStore.get_candidates_by_issues finds by
\* their office
supabase_office_candidates(issue_ids) ==
    LET relevant_offices == supabase_get_offices_by_issues(issue_ids, FALSE)
        office_ids == {r.id : r \in BagToSet(relevant_offices.result)}
    IN  {c \in DOMAIN candidates : candidates[c].office_id \in office_ids}

\* C29: on the dataset of either store, for every issue id, the
\* get_offices_by_issues of IssueDataStore and that of SupabaseDataStore
\* return the same offices, and the office-based halves of the two
\* get_candidates_by_issues select the same candidates.
C29_OfficeQueriesAgree ==
    \A i \in AllIssueIds \cup QueryIds :
        /\ get_offices_by_issues(<<i>>) =
               supabase_get_offices_by_issues(<<i>>, FALSE).result
        /\ memory_office_candidates(<<i>>) = supabase_office_candidates(<<i>>)

\* the part of C29 about the candidates found by their office
C29_OfficeHalvesAgree ==
    \A i \in AllIssueIds \cup QueryIds :
        memory_office_candidates(<<i>>) = supabase_office_candidates(<<i>>)

\* the records the active store returns for a query, as a set
ResultSet(op, issue_ids) == BagToSet(StoreQuery(op, issue_ids))

\* C30: the records each of the three queries returns for a list are those
\* it returns for a first part of the list together with those it returns
\* for the rest, wherever the list is cut; a list with the same ids in
\* another order or number returns the same records, and a list with fewer
\* ids no record more.
C30_DistributesOverUnion ==
    (last.op \in ByIssues /\ Answered(last.op)) =>
        /\ \A k \in 0..Len(last.issue_ids) :
               BagToSet(last.result) =
                   ResultSet(last.op, SubSeq(last.issue_ids, 1, k))
                   \cup ResultSet(last.op, SubSeq(last.issue_ids, k + 1,
                                                  Len(last.issue_ids)))
        /\ \A other \in ListsUpTo(QueryIds, MaxFilterLen) :
               /\ ToSet(other) = ToSet(last.issue_ids) =>
                      ResultSet(last.op, other) = BagToSet(last.result)
               /\ ToSet(other) \subseteq ToSet(last.issue_ids) =>
                      ResultSet(last.op, other) \subseteq BagToSet(last.result)

\* get_candidates_by_issues(["housing", "rights"]) returned the two
\* candidates of ["housing"] and the one of ["rights"]
C30_Witness ==
    /\ store_kind = "memory"
    /\ last.op = "get_candidates_by_issues"
    /\ last.issue_ids = <<"housing", "rights">>
    /\ ResultSet(last.op, <<"housing">>) =
           {candidates["candidate-1"], candidates["candidate-2"]}
    /\ ResultSet(last.op, <<"rights">>) = {candidates["candidate-3"]}
    /\ BagToSet(last.result) = {candidates[c] : c \in DOMAIN candidates}

(***************************************************************************)
(* Properties of the read routes.                                          *)
(***************************************************************************)
\* the routes that list offices, ballot measures and candidates
ListRoutes == {"get_offices", "get_ballot_measures", "get_candidates"}

\* the relationship query behind a list route
ByIssuesOf(route) ==
    CASE route = "get_offices" -> "get_offices_by_issues"
      [] route = "get_ballot_measures" -> "get_ballot_measures_by_issues"
      [] route = "get_candidates" -> "get_candidates_by_issues"

\* every record of the type a route lists, once each
AllRecords(route) ==
    LET table == CASE route = "get_issues" -> issues
                   [] route = "get_offices" -> offices
                   [] route = "get_ballot_measures" -> ballot_measures
                   [] route = "get_candidates" -> candidates
    IN  SetToBag({table[x] : x \in DOMAIN table})

\* the request recorded in last was served without a failure of the
\* backing store
Served(routes) ==
    /\ last.op \in routes
    /\ store_kind = "supabase" => last.outcome = "ok"

\* C21: a list request without an offices parameter is answered, when the
\* issues parameter is absent, with all records of the type, and when it
\* is present, whatever its value, with what the relationship query
\* returns for the ids parsed from it.
C21_FilterPresenceDecides ==
    (Served(ListRoutes) /\ last.params.offices = Absent) =>
        /\ last.response.status = 200
        /\ IF last.params.issues = Absent
           THEN last.result = AllRecords(last.op)
           ELSE last.result = StoreQuery(ByIssuesOf(last.op),
                                         parse_ids(last.params.issues))

\* C22: a candidates request whose offices and issues parameters both name
\* an id is answered with exactly the candidates whose office_id is one of
\* the office ids, once each, in either store.
C22_OfficeFilterWins ==
    (/\ Served({"get_candidates"})
     /\ parse_ids(args_get(last.params.offices)) # <<>>
     /\ parse_ids(args_get(last.params.issues)) # <<>>) =>
        /\ last.response.status = 200
        /\ last.result =
               SetToBag({candidates[c] :
                   c \in {x \in DOMAIN candidates :
                             Contains(parse_ids(last.params.offices),
                                      candidates[x].office_id)}})

\* C23: a request for issues, offices, ballot measures or candidates
\* without parameters is answered, in either store, with a successful
\* reply holding every record of the type.
C23_UnfilteredListsAll ==
    (Served(ListRoutes \cup {"get_issues"}) /\ last.params = NoParams) =>
        /\ last.response.status = 200
        /\ last.result = AllRecords(last.op)

\* C24: the combined fetch is answered with all issues, and with the
\* offices, ballot measures and candidates that the three relationship
\* queries return for the ids of its filter, or with all offices, ballot
\* measures and candidates when it has no filter.
C24_CivicDataComposes ==
    Served({"get_civic_data"}) =>
        /\ last.response.status = 200
        /\ last.result.issues = AllRecords("get_issues")
        /\ IF args_get(last.params.issues) # <<>>
           THEN LET selected_issues == parse_ids(last.params.issues)
                IN  /\ last.result.offices =
                           StoreQuery("get_offices_by_issues", selected_issues)
                    /\ last.result.ballot_measures =
                           StoreQuery("get_ballot_measures_by_issues", selected_issues)
                    /\ last.result.candidates =
                           StoreQuery("get_candidates_by_issues", selected_issues)
           ELSE /\ last.result.offices = AllRecords("get_offices")
                /\ last.result.ballot_measures = AllRecords("get_ballot_measures")
                /\ last.result.candidates = AllRecords("get_candidates")

(***************************************************************************)
(* Properties of the load of a seed with dangling relationships.           *)
(***************************************************************************)
\* the entries of a relationship list that name no record of the table
Dangling(list, table) == {x \in ToSet(list) : x \notin DOMAIN table}

C26_NoRelationshipDerivedFromDangling ==
    /\ \A i \in DOMAIN issues :
           /\ \A o \in ToSet(issues[i].related_offices) \cap DOMAIN offices :
                  Contains(offices[o].related_issues, i)
           /\ \A m \in ToSet(issues[i].related_measures) \cap DOMAIN ballot_measures :
                  Contains(ballot_measures[m].related_issues, i)
    /\ (/\ last.op \in {"get_offices_by_issues", "get_ballot_measures_by_issues"}
        /\ KnownOnly(last.issue_ids) = <<>>) => last.result = EmptyBag
====
